---- MODULE Spec2Model ----
(***************************************************************************)
(* A model of proxy_cached.py, the caching pub.dev proxy.                  *)
(*                                                                         *)
(* The cache is the directory tree {cache_dir}/{name}/{version}/ holding   *)
(* {name}-{version}.tar.gz and, while a download is being written,         *)
(* {name}-{version}.tar.gz.part.  Flask runs with threaded=True, so every  *)
(* request is a thread and the handlers interleave at their system calls.  *)
(* A file is an inode: a directory entry names it and an open file object  *)
(* keeps writing to it at its own offset whatever happens to the entry.    *)
(***************************************************************************)
EXTENDS Integers, Sequences, FiniteSets, TLC

\* ------------------------------------------------------------------ bounds
\* The number of requests started in one behaviour.
MaxOps == 3

\* The longest 'versions' list of an upstream metadata document.
MaxEntries == 2

\* ------------------------------------------------------------ enumerations
\* Request threads of the threaded Flask server.
Procs == {"t1", "t2"}

\* The <name> and <version> path segments requests carry.
Names == {"a"}
Versions == {"1"}
Keys == Names \X Versions

\* The packages and versions of a cache directory a start of the program
\* finds filled by earlier runs.
TreeNames == {"a", "b"}
TreeVersions == {"1", "2"}
TreeKeys == TreeNames \X TreeVersions

\* admin_purge(name, version=None): the route without a version.
NoVersion == "-"

\* Archive payloads upstream can answer with, as the chunks iter_content
\* yields (one byte stands for one chunk of up to 8192 bytes).  iter_content
\* yields no empty chunk, so the handlers' "if chunk:" always holds.
Payloads == {<<1, 2>>, <<3>>}

\* Upstream status codes: the one the handlers cache, another 2xx, two errors.
Statuses == {200, 204, 404, 500}

\* Inode numbers: a final and a temporary file per key, and one unlinked but
\* still open file per thread.
Inodes == 1 .. (2 * Cardinality(TreeKeys) + Cardinality(Procs))

VARIABLES
    pkgDirs,    \* names n for which {cache_dir}/{n} is a directory
    verDirs,    \* keys <<n, v>> for which {cache_dir}/{n}/{v} is a directory
    files,      \* directory entries: path <<n, v, suffix>> -> inode
    data,       \* inode -> content (a sequence of bytes, 0 = unwritten hole)
    req,        \* thread -> the request it is running (locals of the handler)
    ops,        \* requests started so far
    lastPop     \* observer: key -> the payload of the last os.replace that
                \* succeeded for it, <<>> once a purge or a step of another
                \* populate has touched the key since

vars == <<pkgDirs, verDirs, files, data, req, ops, lastPop>>
fs == <<pkgDirs, verDirs, files, data>>

\* ----------------------------------------------------------------- paths
\* version_dir(cache_dir, name, version)
version_dir(name, version) == <<name, version>>

\* A file name is kept as its dot-separated parts after "{name}-{version}",
\* so that endswith looks at the end of the name as the code does.
\* filename = os.path.join(vd, f"{name}-{version}.tar.gz")
Filename(name, version) == <<name, version, <<"tar", "gz">>>>

\* A temporary name that still ends in '.tar.gz'.
TmpnamePartFirst(name, version) == <<name, version, <<"part", "tar", "gz">>>>

\* The download written straight to the final name.
TmpnameIsFinal(name, version) == Filename(name, version)

\* tmpname = filename + '.part'
Tmpname(name, version) == <<name, version, <<"tar", "gz", "part">>>>

\* f.endswith('.tar.gz')
EndsWithTarGz(path) ==
    LET parts == path[3]
        n == Len(parts)
    IN  n >= 2 /\ parts[n - 1] = "tar" /\ parts[n] = "gz"

\* f.endswith('.part')
EndsWithPart(path) == path[3][Len(path[3])] = "part"

\* The paths the scan of cached_tar_path can return: none when the version
\* directory is missing or holds no '.tar.gz' file, else the first match of
\* os.listdir, which is any of the matching entries.
cached_tar_path(name, version) ==
    IF version_dir(name, version) \notin verDirs
    THEN {}
    ELSE {f \in DOMAIN files :
            f[1] = name /\ f[2] = version /\ EndsWithTarGz(f)}

\* ------------------------------------------------------------- file system
Range(f) == {f[x] : x \in DOMAIN f}

\* An rmtree that always takes the whole package directory.
RemoveTreeOfPackage(f, name, version) ==
    [x \in {y \in DOMAIN f : y[1] # name} |-> f[x]]

\* shutil.rmtree: the entries of f outside the directory of (name, version),
\* or outside the whole directory of name when no version is given.
RemoveTree(f, name, version) ==
    [x \in {y \in DOMAIN f :
               ~(y[1] = name /\ (version = NoVersion \/ y[2] = version))}
        |-> f[x]]

\* f with the entry path -> ino added or replaced.
Link(f, path, ino) ==
    [x \in DOMAIN f \cup {path} |-> IF x = path THEN ino ELSE f[x]]

\* f without the entry path.
Unlink(f, path) == [x \in DOMAIN f \ {path} |-> f[x]]

\* An inode lives while a directory entry names it or a file object has it
\* open; the content of a dead inode is gone.
Live(f, rq) == Range(f) \cup {rq[p].ino : p \in DOMAIN rq}
Reclaim(d, f, rq) ==
    [i \in Inodes |-> IF i \in Live(f, rq) THEN d[i] ELSE <<>>]

\* The inode a newly created file gets.
FreshIno == CHOOSE i \in Inodes :
    /\ i \notin Live(files, req)
    /\ \A j \in Inodes : j \notin Live(files, req) => i <= j

\* fh.write(chunk) at file offset off: bytes between the end of the file and
\* the offset read as zeros.
WriteAt(content, off, chunk) ==
    [i \in 1 .. (IF Len(content) > off + 1 THEN Len(content) ELSE off + 1) |->
        IF i = off + 1 THEN chunk
        ELSE IF i <= Len(content) THEN content[i]
        ELSE 0]

\* The bytes of a stream not yet consumed: what a second r.iter_content()
\* yields after pos chunks were taken.
Rest(payload, pos) == SubSeq(payload, pos + 1, Len(payload))

\* ---------------------------------------------------------------- requests
\* A thread that runs no handler.  The fields up to doc are the handler's
\* locals and its response.  The rest observe the run and steer nothing:
\*   fetches  calls of fetch_upstream made by the request
\*   fault    the disk refused one of the request's own calls (makedirs,
\*            open, write, os.replace) though the path was there
\*   rmfail   os.remove of the temporary file raised and was swallowed
\*   purged   a purge removed the request's directory while it was running
\*   raced    another request's os.replace for the same key succeeded while
\*            this one was running
\*   absent0  cached_tar_path found nothing when the populate began
\*   scan     the archive files in the version directory when the request
\*            finished
\*   seen0    for a prefetch, the content of the cached archive when the
\*            request arrived (empty when there was none)
\*   crossed  for a prefetch, another request on its key was in flight at
\*            some moment of its run
IdleReq ==
    [op |-> "idle", name |-> "", version |-> "", pc |-> "idle",
     r |-> "none", status |-> 0, payload |-> <<>>, pos |-> 0,
     consumed |-> FALSE, tar |-> <<>>, ino |-> 0, off |-> 0,
     code |-> 0, outcome |-> "", body |-> <<>>,
     upstream_doc |-> <<>>, doc |-> <<>>,
     fetches |-> 0, fault |-> FALSE, rmfail |-> FALSE, purged |-> FALSE,
     raced |-> FALSE, absent0 |-> FALSE, scan |-> {}, seen0 |-> {},
     crossed |-> FALSE]

\* The requests working on (name, version): those a purge or a rename of
\* that key can cross.
Running(rq, name, version) ==
    /\ rq.pc \notin {"idle", "done"}
    /\ rq.name = name
    /\ version \in {NoVersion, rq.version}

\* The observer fields of the other requests after thread p renamed a
\* temporary file of (name, version) into place.
MarkRaced(rqs, p, name, version) ==
    [q \in DOMAIN rqs |->
        IF q # p /\ Running(rqs[q], name, version)
        THEN [rqs[q] EXCEPT !.raced = TRUE]
        ELSE rqs[q]]

\* The observer fields of the other requests after thread p purged
\* (name, version), or the whole of name.
MarkPurged(rqs, p, name, version) ==
    [q \in DOMAIN rqs |->
        IF q # p /\ Running(rqs[q], name, version)
        THEN [rqs[q] EXCEPT !.purged = TRUE]
        ELSE rqs[q]]

\* lastPop once a step of a populate other than a successful rename has
\* touched (name, version).
Touched(name, version) ==
    [k \in Keys |-> IF k = <<name, version>> THEN <<>> ELSE lastPop[k]]

\* The routes of the application and the first step of each handler.
Routes ==
    {[op |-> "package_archive", pc |-> "lookup"],
     [op |-> "admin_prefetch", pc |-> "fetch"],
     [op |-> "admin_purge", pc |-> "purge"],
     [op |-> "api_package", pc |-> "meta"],
     [op |-> "api_package_version", pc |-> "meta"],
     [op |-> "proxy_fallback", pc |-> "relay"]}

\* The version segment a route takes: admin_purge alone may go without one,
\* api_package has none.
RouteVersions(op) ==
    CASE op = "admin_purge" -> Versions \cup {NoVersion}
      [] op \in {"api_package", "proxy_fallback"} -> {NoVersion}
      [] OTHER -> Versions

\* What fetch_upstream can return: None after a requests.RequestException
\* (r = "error"), else the response with its status code and body.
fetch_upstream ==
    {[r |-> "error", status |-> 0, payload |-> <<>>]} \cup
    [r : {"resp"}, status : Statuses, payload : Payloads]

\* The request after one more call of fetch_upstream.
Fetched(rq) == [rq EXCEPT !.fetches = rq.fetches + 1]

\* A handler that goes back to fetch_upstream after a transport failure.
FetchAgain(rq) == [rq EXCEPT !.r = "error"]

\* A handler that answers 500 where the code aborts with 502.
Abort500(rq) ==
    [rq EXCEPT !.pc = "done", !.r = "error", !.code = 500,
               !.outcome = "ServerError"]

\* return abort(502)
Abort502(rq) ==
    [rq EXCEPT !.pc = "done", !.r = "error", !.code = 502,
               !.outcome = "BadGateway"]

\* return Response(r.content, status=r.status_code, ...)
PassThrough(rq, u) ==
    [rq EXCEPT !.pc = "done", !.r = "resp", !.status = u.status,
               !.payload = u.payload, !.code = u.status,
               !.outcome = "UpstreamError", !.body = u.payload]

\* A test that lets every 2xx status through to the populate.
Is2xx(status) == status \in 200 .. 299

\* if r.status_code != 200: return Response(...)  -- the statuses that go on
\* to the populate.
IsOk(status) == status = 200

\* An exception no handler catches: Flask answers 500.
Raise500(rq) ==
    [rq EXCEPT !.pc = "done", !.ino = 0, !.code = 500,
               !.outcome = "ServerError", !.body = <<>>]

Init ==
    /\ pkgDirs = {}
    /\ verDirs = {}
    /\ files = << >>
    /\ data = [i \in Inodes |-> <<>>]
    /\ req = [p \in Procs |-> IdleReq]
    /\ ops = 0
    /\ lastPop = [k \in Keys |-> <<>>]

\* The content of the cache entry of (name, version): empty when no entry is
\* present.
EntryContent(name, version) ==
    {data[files[f]] : f \in cached_tar_path(name, version)}

\* Requests rq and nq are in flight on the same key: the same package and
\* the same version, or one of them on the whole package.
Overlap(rq, nq) ==
    /\ rq.pc \notin {"idle", "done"}
    /\ rq.name = nq.name
    /\ \/ rq.version = nq.version
       \/ NoVersion \in {rq.version, nq.version}

\* The observer fields after request nq arrived at thread p: a prefetch notes
\* what is cached and whether it has company, and the prefetches it joins
\* note the company too.
Arrived(rqs, p, nq) ==
    [q \in DOMAIN rqs |->
        IF q = p
        THEN IF nq.op = "admin_prefetch"
             THEN [nq EXCEPT
                     !.seen0 = EntryContent(nq.name, nq.version),
                     !.crossed = \E o \in DOMAIN rqs \ {p} :
                                    Overlap(rqs[o], nq)]
             ELSE nq
        ELSE IF rqs[q].op = "admin_prefetch" /\ Overlap(rqs[q], nq)
             THEN [rqs[q] EXCEPT !.crossed = TRUE]
             ELSE rqs[q]]

\* The dispatch layer hands a request to a free thread.
Start(p) ==
    /\ req[p].pc \in {"idle", "done"}
    /\ ops < MaxOps
    /\ ops' = ops + 1
    /\ \E route \in Routes, n \in Names :
         \E v \in RouteVersions(route.op) :
            req' = Arrived(req, p,
                      [IdleReq EXCEPT !.op = route.op, !.pc = route.pc,
                                      !.name = n, !.version = v])
    /\ UNCHANGED <<fs, lastPop>>

\* ------------------------------------------------------- package_archive
\* tar = cached_tar_path(cache_dir, name, version); if tar: ... (hit), else
\* go on to the upstream fetch.
ArchiveLookup(p) ==
    /\ req[p].op = "package_archive" /\ req[p].pc = "lookup"
    /\ LET tars == cached_tar_path(req[p].name, req[p].version)
       IN  IF tars # {}
           THEN \E t \in tars :
                  req' = [req EXCEPT ![p].pc = "send_hit", ![p].tar = t]
           ELSE req' = [req EXCEPT ![p].pc = "fetch"]
    /\ UNCHANGED <<fs, ops, lastPop>>

\* return send_file(tar, as_attachment=True): the file is opened by path when
\* the response is built; a path that is gone by then raises.  The body is
\* the content of the file at that moment.
ArchiveSendHit(p) ==
    /\ req[p].op = "package_archive" /\ req[p].pc = "send_hit"
    /\ IF req[p].tar \in DOMAIN files
       THEN req' = [req EXCEPT
                      ![p].pc = "done", ![p].code = 200,
                      ![p].outcome = "CacheHit",
                      ![p].body = data[files[req[p].tar]],
                      ![p].scan = cached_tar_path(req[p].name, req[p].version)]
       ELSE req' = [req EXCEPT ![p] = Raise500(@)]
    /\ UNCHANGED <<fs, ops, lastPop>>

\* r = fetch_upstream(upstream_path, stream=True) and the two early returns.
ArchiveFetch(p) ==
    /\ req[p].op = "package_archive" /\ req[p].pc = "fetch"
    /\ \E u \in fetch_upstream :
         req' = [req EXCEPT ![p] =
                   LET rq == Fetched(req[p])
                   IN  IF u.r = "error" THEN Abort502(rq)
                       ELSE IF ~IsOk(u.status) THEN PassThrough(rq, u)
                       ELSE [rq EXCEPT !.pc = "makedirs", !.r = "resp",
                                       !.status = u.status,
                                       !.payload = u.payload]]
    /\ UNCHANGED <<fs, ops, lastPop>>

\* os.makedirs(vd, exist_ok=True), outside the try block: an OSError here
\* reaches Flask.
Makedirs(p) ==
    /\ req[p].op \in {"package_archive", "admin_prefetch"}
    /\ req[p].pc = "makedirs"
    /\ \/ /\ pkgDirs' = pkgDirs \cup {req[p].name}
          /\ verDirs' = verDirs \cup {version_dir(req[p].name, req[p].version)}
          /\ req' = [req EXCEPT
                       ![p].pc = "open",
                       ![p].absent0 =
                           (cached_tar_path(req[p].name, req[p].version) = {})]
          /\ UNCHANGED <<files, data>>
       \/ /\ req' = [req EXCEPT ![p] = [Raise500(req[p]) EXCEPT !.fault = TRUE]]
          /\ UNCHANGED fs
    /\ UNCHANGED <<ops, lastPop>>

\* open(tmpname, 'wb'): creates the file, or truncates the one of that name;
\* raises when the directory is gone or the disk refuses.
OpenTmp(p) ==
    /\ req[p].op \in {"package_archive", "admin_prefetch"}
    /\ req[p].pc = "open"
    /\ LET tmp == Tmpname(req[p].name, req[p].version)
           vd == version_dir(req[p].name, req[p].version)
       IN  \/ /\ vd \in verDirs
              /\ LET i == IF tmp \in DOMAIN files THEN files[tmp] ELSE FreshIno
                 IN  /\ files' = Link(files, tmp, i)
                     /\ data' = [data EXCEPT ![i] = <<>>]
                     /\ req' = [req EXCEPT ![p].pc = "write", ![p].ino = i,
                                           ![p].off = 0]
              /\ lastPop' = Touched(req[p].name, req[p].version)
              /\ UNCHANGED <<pkgDirs, verDirs>>
           \/ /\ vd \in verDirs
              /\ req' = [req EXCEPT ![p].pc = "except", ![p].fault = TRUE]
              /\ UNCHANGED <<fs, lastPop>>
           \/ /\ vd \notin verDirs
              /\ req' = [req EXCEPT ![p].pc = "except"]
              /\ UNCHANGED <<fs, lastPop>>
    /\ UNCHANGED ops

\* One turn of "for chunk in r.iter_content(...): fh.write(chunk); fh.flush()":
\* the chunk is taken from the stream, then written at the file object's
\* offset.  After the last chunk the stream is exhausted and the with block
\* closes the file.  A failed write leaves the with block through the
\* exception.
WriteChunk(p) ==
    /\ req[p].op \in {"package_archive", "admin_prefetch"}
    /\ req[p].pc = "write"
    /\ LET rq == req[p]
           chunk == rq.payload[rq.pos + 1]
           last == rq.pos + 1 = Len(rq.payload)
       IN  \/ LET d == [data EXCEPT ![rq.ino] = WriteAt(@, rq.off, chunk)]
                  nrq == [req EXCEPT ![p] =
                            IF last
                            THEN [rq EXCEPT !.pos = rq.pos + 1, !.ino = 0,
                                            !.off = 0, !.consumed = TRUE,
                                            !.pc = "replace"]
                            ELSE [rq EXCEPT !.pos = rq.pos + 1,
                                            !.off = rq.off + 1]]
              IN  /\ req' = nrq
                  /\ data' = Reclaim(d, files, nrq)
                  /\ lastPop' = Touched(rq.name, rq.version)
           \/ LET nrq == [req EXCEPT ![p] =
                            [rq EXCEPT !.pos = rq.pos + 1, !.ino = 0,
                                       !.off = 0, !.pc = "except",
                                       !.fault = TRUE]]
              IN  /\ req' = nrq
                  /\ data' = Reclaim(data, files, nrq)
                  /\ UNCHANGED lastPop
    /\ UNCHANGED <<pkgDirs, verDirs, files, ops>>

\* os.replace(tmpname, filename): the final name now names the temporary
\* file's inode and the temporary name is gone; raises, changing nothing,
\* when the temporary name does not exist or the disk refuses (fault).
os_replace(tmp, final) ==
    IF tmp \in DOMAIN files
    THEN {[raised |-> FALSE, fault |-> FALSE,
           files |-> Unlink(Link(files, final, files[tmp]), tmp)],
          [raised |-> TRUE, fault |-> TRUE, files |-> files]}
    ELSE {[raised |-> TRUE, fault |-> FALSE, files |-> files]}

\* A cleanup that removes the final file in place of the temporary one.
remove_final(tmp) ==
    LET final == Filename(tmp[1], tmp[2])
    IN  IF final \in DOMAIN files
        THEN {[rmfail |-> FALSE, files |-> Unlink(files, final)]}
        ELSE {[rmfail |-> FALSE, files |-> files]}

\* A cleanup that forgets the removal.
remove_nothing(tmp) == {[rmfail |-> FALSE, files |-> files]}

\* if os.path.exists(tmpname): try: os.remove(tmpname) except: pass
\* A failed removal is swallowed and leaves the file.
remove_tmp(tmp) ==
    IF tmp \in DOMAIN files
    THEN {[rmfail |-> FALSE, files |-> Unlink(files, tmp)],
          [rmfail |-> TRUE, files |-> files]}
    ELSE {[rmfail |-> FALSE, files |-> files]}

\* lastPop after a cleanup of (name, version) that left the entries f.
Cleaned(name, version, f) ==
    IF f = files THEN lastPop ELSE Touched(name, version)

\* os.replace(tmpname, filename) in package_archive, then on to send_file.
ArchiveReplace(p) ==
    /\ req[p].op = "package_archive" /\ req[p].pc = "replace"
    /\ LET n == req[p].name
           v == req[p].version
       IN  \E f \in os_replace(Tmpname(n, v), Filename(n, v)) :
             IF f.raised
             THEN /\ req' = [req EXCEPT ![p].pc = "except",
                                        ![p].fault = f.fault]
                  /\ UNCHANGED <<fs, lastPop>>
             ELSE /\ req' = MarkRaced([req EXCEPT ![p].pc = "send_new"],
                                      p, n, v)
                  /\ files' = f.files
                  /\ data' = Reclaim(data, f.files, req)
                  /\ lastPop' = [lastPop EXCEPT ![<<n, v>>] = req[p].payload]
                  /\ UNCHANGED <<pkgDirs, verDirs>>
    /\ UNCHANGED ops

\* The except block of package_archive: remove the partial file, then
\* Response(stream_with_context(r.iter_content(...))).  iter_content on a
\* stream that was read to its end raises StreamConsumedError inside the
\* handler; otherwise the response relays the chunks not yet taken.
ArchiveExcept(p) ==
    /\ req[p].op = "package_archive" /\ req[p].pc = "except"
    /\ \E f \in remove_tmp(Tmpname(req[p].name, req[p].version)) :
         /\ files' = f.files
         /\ data' = Reclaim(data, f.files, req)
         /\ lastPop' = Cleaned(req[p].name, req[p].version, f.files)
         /\ req' = [req EXCEPT ![p] =
                      LET rq == [req[p] EXCEPT !.rmfail = f.rmfail]
                      IN  IF rq.consumed
                          THEN Raise500(rq)
                          ELSE [rq EXCEPT
                                  !.pc = "done", !.code = 200,
                                  !.outcome = "RelayedUncached",
                                  !.body = Rest(rq.payload, rq.pos)]]
    /\ UNCHANGED <<pkgDirs, verDirs, ops>>

\* return send_file(filename, as_attachment=True) after the rename.
ArchiveSendNew(p) ==
    /\ req[p].op = "package_archive" /\ req[p].pc = "send_new"
    /\ LET final == Filename(req[p].name, req[p].version)
       IN  IF final \in DOMAIN files
           THEN req' = [req EXCEPT
                          ![p].pc = "done", ![p].code = 200,
                          ![p].outcome = "Cached",
                          ![p].body = data[files[final]],
                          ![p].scan =
                              cached_tar_path(req[p].name, req[p].version)]
           ELSE req' = [req EXCEPT ![p] = Raise500(@)]
    /\ UNCHANGED <<fs, ops, lastPop>>

\* --------------------------------------------------------- admin_prefetch
\* r = fetch_upstream(upstream_path, stream=True) and the two early returns;
\* no look at the cache comes first.
PrefetchFetch(p) ==
    /\ req[p].op = "admin_prefetch" /\ req[p].pc = "fetch"
    /\ \E u \in fetch_upstream :
         req' = [req EXCEPT ![p] =
                   LET rq == Fetched(req[p])
                   IN  IF u.r = "error" THEN Abort502(rq)
                       ELSE IF ~IsOk(u.status) THEN PassThrough(rq, u)
                       ELSE [rq EXCEPT !.pc = "makedirs", !.r = "resp",
                                       !.status = u.status,
                                       !.payload = u.payload]]
    /\ UNCHANGED <<fs, ops, lastPop>>

\* os.replace(tmpname, filename) in admin_prefetch and the 'cached' answer.
PrefetchReplace(p) ==
    /\ req[p].op = "admin_prefetch" /\ req[p].pc = "replace"
    /\ LET n == req[p].name
           v == req[p].version
       IN  \E f \in os_replace(Tmpname(n, v), Filename(n, v)) :
             IF f.raised
             THEN /\ req' = [req EXCEPT ![p].pc = "except",
                                        ![p].fault = f.fault]
                  /\ UNCHANGED <<fs, lastPop>>
             ELSE /\ req' = MarkRaced(
                              [req EXCEPT ![p].pc = "done", ![p].code = 200,
                                          ![p].outcome = "cached"],
                              p, n, v)
                  /\ files' = f.files
                  /\ data' = Reclaim(data, f.files, req)
                  /\ lastPop' = [lastPop EXCEPT ![<<n, v>>] = req[p].payload]
                  /\ UNCHANGED <<pkgDirs, verDirs>>
    /\ UNCHANGED ops

\* The except block of admin_prefetch: remove the partial file, answer 500.
PrefetchExcept(p) ==
    /\ req[p].op = "admin_prefetch" /\ req[p].pc = "except"
    /\ \E f \in remove_tmp(Tmpname(req[p].name, req[p].version)) :
         /\ files' = f.files
         /\ data' = Reclaim(data, f.files, req)
         /\ lastPop' = Cleaned(req[p].name, req[p].version, f.files)
         /\ req' = [req EXCEPT ![p].pc = "done", ![p].code = 500,
                               ![p].outcome = "error",
                               ![p].rmfail = f.rmfail]
    /\ UNCHANGED <<pkgDirs, verDirs, ops>>

\* ------------------------------------------------------------ admin_purge
\* What admin_purge answers when the directories are pk and vd: 'purged'
\* when the version directory (the package directory when no version is
\* given) is there, else 'not_found' with 404.
PurgeOutcome(name, version, pk, vd) ==
    IF version # NoVersion
    THEN IF version_dir(name, version) \in vd
         THEN [code |-> 200, outcome |-> "purged"]
         ELSE [code |-> 404, outcome |-> "not_found"]
    ELSE IF name \in pk
         THEN [code |-> 200, outcome |-> "purged"]
         ELSE [code |-> 404, outcome |-> "not_found"]

\* shutil.rmtree of the version directory, or of the package directory when
\* no version is given; 404 when the directory is not there.  The test and
\* the removal of the tree are taken as one step.
admin_purge(p) ==
    /\ req[p].op = "admin_purge" /\ req[p].pc = "purge"
    /\ LET n == req[p].name
           v == req[p].version
           out == PurgeOutcome(n, v, pkgDirs, verDirs)
           nrq == [req EXCEPT ![p].pc = "done", ![p].code = out.code,
                              ![p].outcome = out.outcome]
       IN  IF out.outcome = "purged"
           THEN /\ pkgDirs' = IF v = NoVersion THEN pkgDirs \ {n} ELSE pkgDirs
                /\ verDirs' = {d \in verDirs :
                                 ~(d[1] = n /\ (v = NoVersion \/ d[2] = v))}
                /\ files' = RemoveTree(files, n, v)
                /\ data' = Reclaim(data, RemoveTree(files, n, v), req)
                /\ req' = MarkPurged(nrq, p, n, v)
                /\ lastPop' = [k \in Keys |->
                                 IF k[1] = n /\ (v = NoVersion \/ k[2] = v)
                                 THEN <<>> ELSE lastPop[k]]
           ELSE /\ req' = nrq
                /\ UNCHANGED <<fs, lastPop>>
    /\ UNCHANGED ops

\* ------------------------------------------------------ metadata handlers
\* The archive link upstream publishes, and url_for('package_archive', ...).
UpstreamUrl(name, version) == <<"https://pub.dev", name, version>>
url_for(name, version) == <<"proxy", name, version>>

\* One entry of a metadata document; version "" is an entry without one.
VersionEntries(name) ==
    {[version |-> v, archive_url |-> UpstreamUrl(name, v), pubspec |-> "y"] :
        v \in Versions \cup {""}}

\* The 'versions' lists upstream can answer with (up to MaxEntries entries).
PackageDocs(name) ==
    UNION {[1 .. k -> VersionEntries(name)] : k \in 0 .. MaxEntries}

\* A rewrite that points at the proxy only the versions already cached.
RewriteCachedOnly(name, doc) ==
    [i \in DOMAIN doc |->
        IF doc[i].version = "" \/ cached_tar_path(name, doc[i].version) = {}
        THEN doc[i]
        ELSE [doc[i] EXCEPT !.archive_url = url_for(name, doc[i].version)]]

\* for v in data.get('versions', []): ... v['archive_url'] = url_for(...)
RewriteVersions(name, doc) ==
    [i \in DOMAIN doc |->
        IF doc[i].version = ""
        THEN doc[i]
        ELSE [doc[i] EXCEPT !.archive_url = url_for(name, doc[i].version)]]

\* api_package(name): fetch, 502 or pass through, else rewrite every entry.
api_package(p) ==
    /\ req[p].op = "api_package" /\ req[p].pc = "meta"
    /\ \/ req' = [req EXCEPT ![p] = Abort502(Fetched(@))]
       \/ \E st \in Statuses \ {200}, b \in Payloads :
            req' = [req EXCEPT ![p] =
                      PassThrough(Fetched(@), [status |-> st, payload |-> b])]
       \/ \E doc \in PackageDocs(req[p].name) :
            req' = [req EXCEPT ![p].pc = "done", ![p].r = "resp",
                               ![p].fetches = @ + 1,
                               ![p].status = 200, ![p].code = 200,
                               ![p].outcome = "Rewritten",
                               ![p].upstream_doc = doc,
                               ![p].doc = RewriteVersions(req[p].name, doc)]
    /\ UNCHANGED <<fs, ops, lastPop>>

\* api_package_version(name, version): the same for the one-version
\* document, whose archive_url is set from the request's version.
api_package_version(p) ==
    /\ req[p].op = "api_package_version" /\ req[p].pc = "meta"
    /\ \/ req' = [req EXCEPT ![p] = Abort502(Fetched(@))]
       \/ \E st \in Statuses \ {200}, b \in Payloads :
            req' = [req EXCEPT ![p] =
                      PassThrough(Fetched(@), [status |-> st, payload |-> b])]
       \/ \E e \in VersionEntries(req[p].name) :
            req' = [req EXCEPT ![p].pc = "done", ![p].r = "resp",
                               ![p].fetches = @ + 1,
                               ![p].status = 200, ![p].code = 200,
                               ![p].outcome = "Rewritten",
                               ![p].upstream_doc = <<e>>,
                               ![p].doc = <<[e EXCEPT !.archive_url =
                                    url_for(req[p].name, req[p].version)]>>]
    /\ UNCHANGED <<fs, ops, lastPop>>

\* proxy_fallback(path): relay the upstream answer, 502 when upstream cannot
\* be reached.
proxy_fallback(p) ==
    /\ req[p].op = "proxy_fallback" /\ req[p].pc = "relay"
    /\ \/ req' = [req EXCEPT ![p] = Abort502(Fetched(@))]
       \/ \E st \in Statuses, b \in Payloads :
            req' = [req EXCEPT ![p].pc = "done", ![p].r = "resp",
                               ![p].fetches = @ + 1,
                               ![p].status = st, ![p].payload = b,
                               ![p].code = st, ![p].outcome = "Relayed",
                               ![p].body = b]
    /\ UNCHANGED <<fs, ops, lastPop>>

\* ---------------------------------------------------------- specification
Next ==
    \E p \in Procs :
        \/ Start(p)
        \/ ArchiveLookup(p)
        \/ ArchiveSendHit(p)
        \/ ArchiveFetch(p)
        \/ Makedirs(p)
        \/ OpenTmp(p)
        \/ WriteChunk(p)
        \/ ArchiveReplace(p)
        \/ ArchiveExcept(p)
        \/ ArchiveSendNew(p)
        \/ PrefetchFetch(p)
        \/ PrefetchReplace(p)
        \/ PrefetchExcept(p)
        \/ admin_purge(p)
        \/ api_package(p)
        \/ api_package_version(p)
        \/ proxy_fallback(p)

Spec == Init /\ [][Next]_vars

\* ----------------------------------------- purges of a filled cache directory
\* What a version directory left by earlier runs holds: no directory, an
\* empty one, a cached archive, or a cached archive next to a '.part' file
\* that a failed cleanup left.
TreeShapes ==
    {[dir |-> FALSE, tar |-> <<>>, part |-> FALSE],
     [dir |-> TRUE, tar |-> <<>>, part |-> FALSE],
     [dir |-> TRUE, tar |-> <<1, 2>>, part |-> FALSE],
     [dir |-> TRUE, tar |-> <<3>>, part |-> TRUE]}

\* The inodes of the files of a key in such a directory: 2j - 1 for the
\* archive and 2j for the '.part' file of the j-th key.
KeyNo == CHOOSE f \in [TreeKeys -> 1 .. Cardinality(TreeKeys)] :
            \A k, l \in TreeKeys : k # l => f[k] # f[l]

\* The program starts on a cache directory of any such shape (os.makedirs of
\* cache_dir with exist_ok=True keeps what is there).
TreeInit ==
    /\ \E shape \in [TreeKeys -> TreeShapes], bare \in SUBSET TreeNames :
         /\ verDirs = {k \in TreeKeys : shape[k].dir}
         /\ pkgDirs = {k[1] : k \in {l \in TreeKeys : shape[l].dir}} \cup bare
         /\ files =
              [f \in {Filename(k[1], k[2]) :
                         k \in {l \in TreeKeys : shape[l].tar # <<>>}}
                     \cup {Tmpname(k[1], k[2]) :
                         k \in {l \in TreeKeys : shape[l].part}}
                 |-> IF EndsWithTarGz(f)
                     THEN 2 * KeyNo[<<f[1], f[2]>>] - 1
                     ELSE 2 * KeyNo[<<f[1], f[2]>>]]
         /\ data =
              [i \in Inodes |->
                 IF \E k \in TreeKeys :
                       i = 2 * KeyNo[k] - 1 /\ shape[k].tar # <<>>
                 THEN shape[CHOOSE k \in TreeKeys : i = 2 * KeyNo[k] - 1].tar
                 ELSE IF \E k \in TreeKeys : i = 2 * KeyNo[k] /\ shape[k].part
                 THEN <<1>>
                 ELSE <<>>]
    /\ req = [p \in Procs |-> IdleReq]
    /\ ops = 0
    /\ lastPop = [k \in Keys |-> <<>>]

\* The dispatch layer hands a purge of any package, with or without a
\* version, to a free thread.
StartPurge(p) ==
    /\ req[p].pc \in {"idle", "done"}
    /\ ops < MaxOps
    /\ ops' = ops + 1
    /\ \E n \in TreeNames, v \in TreeVersions \cup {NoVersion} :
         req' = Arrived(req, p,
                   [IdleReq EXCEPT !.op = "admin_purge", !.pc = "purge",
                                   !.name = n, !.version = v])
    /\ UNCHANGED <<fs, lastPop>>

PurgeNext ==
    \E p \in Procs :
        \/ StartPurge(p)
        \/ admin_purge(p)

PurgeSpec == TreeInit /\ [][PurgeNext]_vars

\* ------------------------------------------------------------------ claims
\* A finished archive request that missed the cache, got a 200 from
\* upstream, met no disk fault of its own and was crossed by no purge.
CleanMiss(p) ==
    /\ req[p].op = "package_archive" /\ req[p].pc = "done"
    /\ req[p].r = "resp" /\ req[p].status = 200
    /\ ~req[p].fault /\ ~req[p].purged

\* C1: in every reachable state, whatever the interleaving of archive
\* requests, prefetches and purges, the file cached_tar_path returns for a
\* key holds a complete upstream archive, never a partial or shorter one.
C1_NoTornRead ==
    \A k \in Keys :
        \A t \in cached_tar_path(k[1], k[2]) : data[files[t]] \in Payloads

\* C2: two archive requests for the same key that both missed, both got a
\* 200 and met no disk fault both end Cached, each with the complete bytes
\* of its own upstream response.
C2_BothCached ==
    \A p, q \in Procs :
        (/\ p # q
         /\ CleanMiss(p) /\ CleanMiss(q)
         /\ req[p].name = req[q].name /\ req[p].version = req[q].version)
        => /\ req[p].outcome = "Cached"
           /\ req[p].body = req[p].payload

\* C3: after a successful populate of a key, and until a purge or a step of
\* another populate touches the key, the file Lookup returns is there and
\* holds exactly the bytes that populate wrote.
C3_HitDeterminism ==
    \A k \in Keys :
        lastPop[k] # <<>> =>
            /\ cached_tar_path(k[1], k[2]) # {}
            /\ \A t \in cached_tar_path(k[1], k[2]) :
                   data[files[t]] = lastPop[k]

\* C4: an archive request that missed, got a 200 and met no disk fault made
\* exactly one upstream fetch, left exactly one archive file in the version
\* directory when it finished, and served the upstream payload.
C4_MissThenFetch ==
    \A p \in Procs :
        CleanMiss(p) =>
            /\ req[p].fetches = 1
            /\ req[p].outcome = "Cached"
            /\ Cardinality(req[p].scan) = 1
            /\ req[p].body = req[p].payload

\* Thread p takes the step that ends its request.
Finishes(p) == req[p].pc \notin {"idle", "done"} /\ req'[p].pc = "done"

\* No other thread is working on (name, version).
Quiet(p, name, version) ==
    \A q \in Procs \ {p} : ~Running(req[q], name, version)

\* C5: a purge of a (name, version) that is not cached (Lookup finds
\* nothing, whatever finished requests left behind) answers not-found with
\* 404; a purge of a cached one answers purged; and a purge that follows any
\* purge answers not-found.
C5_PurgeIdempotent ==
    [][\A p \in Procs :
         (/\ req[p].op = "admin_purge" /\ Finishes(p)
          /\ req[p].version # NoVersion)
         => LET n == req[p].name
                v == req[p].version
            IN  /\ (cached_tar_path(n, v) = {} /\ Quiet(p, n, v))
                      => (req'[p].outcome = "not_found" /\ req'[p].code = 404)
                /\ cached_tar_path(n, v) # {}
                      => (req'[p].outcome = "purged" /\ req'[p].code = 200)
                /\ PurgeOutcome(n, v, pkgDirs', verDirs').outcome = "not_found"
      ]_vars

\* C6: a prefetch fetches and populates without looking at the cache; when
\* the key is cached with another payload and the prefetch succeeds, the
\* cached file then holds the new payload.
C6_PrefetchOverwrites ==
    [][\A p \in Procs :
         (/\ req[p].op = "admin_prefetch" /\ Finishes(p)
          /\ req'[p].outcome = "cached")
         => LET final == Filename(req[p].name, req[p].version)
            IN  /\ req[p].fetches = 1
                /\ (/\ final \in DOMAIN files
                    /\ data[files[final]] \in Payloads \ {req[p].payload})
                   => (/\ final \in DOMAIN files'
                       /\ data'[files'[final]] = req[p].payload)
      ]_vars

\* C7: when the populate of an archive request fails on a write or rename
\* error of the disk, the fallback relay still gives the client the complete
\* upstream bytes, and the request creates no cache entry.
C7_FallbackComplete ==
    [][\A p \in Procs :
         (/\ req[p].op = "package_archive" /\ req[p].pc = "except"
          /\ req[p].fault /\ Finishes(p))
         => LET final == Filename(req[p].name, req[p].version)
            IN  /\ req'[p].code = 200
                /\ req'[p].body = req[p].payload
                /\ final \in DOMAIN files' => final \in DOMAIN files
      ]_vars

\* C8: after a write failure during a populate (archive handler or
\* prefetch) of a key that was absent, the temporary file is gone and Lookup
\* for the key returns none.
C8_FailedPopulateLeavesNothing ==
    [][\A p \in Procs :
         (/\ req[p].op \in {"package_archive", "admin_prefetch"}
          /\ req[p].pc = "except" /\ req[p].fault /\ req[p].absent0
          /\ Finishes(p))
         => /\ Tmpname(req[p].name, req[p].version) \notin DOMAIN files'
            /\ cached_tar_path(req[p].name, req[p].version)' = {}
      ]_vars

\* C8 as amended: after a write failure during a populate of a key that was
\* absent, the temporary file is gone unless its removal failed (the handler
\* swallows that error), and Lookup for the key returns none unless another
\* request renamed a file into place meanwhile.
C8_FailedPopulateAmended ==
    [][\A p \in Procs :
         (/\ req[p].op \in {"package_archive", "admin_prefetch"}
          /\ req[p].pc = "except" /\ req[p].fault /\ req[p].absent0
          /\ Finishes(p))
         => /\ ~req'[p].rmfail
                => Tmpname(req[p].name, req[p].version) \notin DOMAIN files'
            /\ ~req[p].raced
                => cached_tar_path(req[p].name, req[p].version)' = {}
      ]_vars

\* A populate that failed on a write after its temporary file was created
\* has finished: the file was removed and the key is still absent.
C8_Witness ==
    \E p \in Procs :
        /\ req[p].op \in {"package_archive", "admin_prefetch"}
        /\ req[p].pc = "done" /\ req[p].fault /\ req[p].absent0
        /\ req[p].pos > 0 /\ ~req[p].consumed /\ ~req[p].rmfail
        /\ Tmpname(req[p].name, req[p].version) \notin DOMAIN files
        /\ cached_tar_path(req[p].name, req[p].version) = {}

\* The step of package_archive that receives the upstream response.
ArchiveResponds(p) ==
    /\ req[p].op = "package_archive" /\ req[p].pc = "fetch"
    /\ req'[p].r = "resp"

\* The response is handed to the client as it came, and the cache tree is
\* as it was.
PassedThrough(p) ==
    /\ req'[p].pc = "done"
    /\ req'[p].code = req'[p].status
    /\ req'[p].body = req'[p].payload
    /\ UNCHANGED fs

\* C9: on a miss the archive handler goes on to populate for every 2xx
\* upstream status, and passes every other status through unchanged without
\* touching the cache tree.
C9_Every2xxPopulates ==
    [][\A p \in Procs :
         ArchiveResponds(p) =>
            IF req'[p].status \in 200 .. 299
            THEN req'[p].pc = "makedirs"
            ELSE PassedThrough(p)
      ]_vars

\* C9 as amended: on a miss the archive handler goes on to populate for
\* status 200 alone, and passes every other status, the other 2xx included,
\* through unchanged without touching the cache tree.
C9_Only200Populates ==
    [][\A p \in Procs :
         ArchiveResponds(p) =>
            IF req'[p].status = 200
            THEN req'[p].pc = "makedirs" /\ UNCHANGED fs
            ELSE PassedThrough(p)
      ]_vars

\* An archive request got a 204 and passed it through, while another got a
\* 200 and is populating.
C9_Witness ==
    \E p, q \in Procs :
        /\ req[p].op = "package_archive" /\ req[p].pc = "done"
        /\ req[p].status = 204 /\ req[p].code = 204
        /\ req[p].body = req[p].payload /\ req[p].body # <<>>
        /\ req[q].op = "package_archive" /\ req[q].pc = "open"
        /\ req[q].status = 200

\* C10: an upstream transport failure in an archive request on a miss, in a
\* prefetch or in either metadata request ends the request with 502 and
\* leaves the cache tree as it was.
C10_TransportFailure502 ==
    [][\A p \in Procs :
         (/\ req[p].op \in {"package_archive", "admin_prefetch",
                            "api_package", "api_package_version"}
          /\ req[p].pc \notin {"idle", "done"}
          /\ req'[p].r = "error")
         => /\ req'[p].pc = "done"
            /\ req'[p].code = 502
            /\ UNCHANGED fs
      ]_vars

\* An archive request that missed and a metadata request both met a
\* transport failure and answered 502.
C10_Witness ==
    \E p, q \in Procs :
        /\ req[p].op = "package_archive" /\ req[p].r = "error"
        /\ req[p].fetches = 1 /\ req[p].code = 502
        /\ req[q].op \in {"api_package", "api_package_version"}
        /\ req[q].r = "error" /\ req[q].code = 502

C12_ArchiveOutcomes ==
    \A p \in Procs :
        (req[p].op = "package_archive" /\ req[p].pc = "done")
        => /\ req[p].outcome \in {"CacheHit", "Cached", "RelayedUncached",
                                  "BadGateway", "UpstreamError"}
           /\ req[p].outcome = "CacheHit"
                <=> (req[p].tar # <<>> /\ req[p].fetches = 0)
           /\ req[p].outcome # "CacheHit"
                => (req[p].tar = <<>> /\ req[p].fetches = 1)

\* C15: no two populates in flight have the same temporary file path open
\* for writing, and no populate renames or removes a temporary file another
\* populate is writing.
C15_DistinctTempFiles ==
    \A p, q \in Procs :
        (/\ p # q
         /\ req[p].op \in {"package_archive", "admin_prefetch"}
         /\ req[q].op \in {"package_archive", "admin_prefetch"}
         /\ req[p].pc = "write" /\ req[q].pc = "write")
        => Tmpname(req[p].name, req[p].version)
               # Tmpname(req[q].name, req[q].version)

\* C16: every version directory holds at most one file whose name ends in
\* '.tar.gz', that file is {name}-{version}.tar.gz, and so the cache lookup
\* has at most one path to return.
C16_OneArchivePerDir ==
    \A k \in Keys :
        LET tars == {f \in DOMAIN files :
                        f[1] = k[1] /\ f[2] = k[2] /\ EndsWithTarGz(f)}
        IN  /\ Cardinality(tars) <= 1
            /\ tars \subseteq {Filename(k[1], k[2])}
            /\ cached_tar_path(k[1], k[2]) = tars

\* C16 happens: a populate is writing its temporary file next to the cached
\* archive, and the directory still has only the one '.tar.gz' name.
C16_Witness ==
    \E k \in Keys :
        /\ Filename(k[1], k[2]) \in DOMAIN files
        /\ Tmpname(k[1], k[2]) \in DOMAIN files
        /\ \E p \in Procs : req[p].pc = "write" /\ req[p].pos > 0
        /\ cached_tar_path(k[1], k[2]) = {Filename(k[1], k[2])}

\* C17: an archive request that found the archive in the cache calls
\* upstream not at all, one that missed calls it exactly once, and no request
\* of any kind calls it again after a transport failure or a status other
\* than 200: the failed call is its only one and the request is over.
C17_AtMostOneFetch ==
    \A p \in Procs :
        /\ req[p].fetches <= 1
        /\ (req[p].op = "package_archive" /\ req[p].tar # <<>>)
              => req[p].fetches = 0
        /\ (req[p].op = "package_archive" /\ req[p].tar = <<>>
                /\ req[p].pc \notin {"lookup", "fetch"})
              => req[p].fetches = 1
        /\ (req[p].r = "error" \/ (req[p].r = "resp" /\ req[p].status # 200))
              => (req[p].pc = "done" /\ req[p].fetches = 1)

\* C17 happens: one thread served a hit, the other was refused by upstream.
C17_Witness ==
    \E p, q \in Procs :
        /\ req[p].op = "package_archive" /\ req[p].outcome = "CacheHit"
        /\ req[p].fetches = 0
        /\ req[q].pc = "done" /\ req[q].fetches = 1
        /\ req[q].outcome \in {"BadGateway", "UpstreamError"}

\* The step is the rmtree of a purge of (name, version) or of all of name.
PurgeStep(name, version) ==
    \E p \in Procs :
        /\ req[p].op = "admin_purge" /\ req[p].pc = "purge"
        /\ req'[p].pc = "done"
        /\ req[p].name = name /\ req[p].version \in {NoVersion, version}

\* The step is the os.replace of a prefetch of (name, version), or of an
\* archive request for it that had missed the cache.
RenameStep(name, version) ==
    \E p \in Procs :
        /\ req[p].op \in {"package_archive", "admin_prefetch"}
        /\ req[p].name = name /\ req[p].version = version
        /\ req[p].tar = <<>>
        /\ req[p].pc = "replace" /\ req'[p].pc # "replace"

\* The step is a write of a chunk by a populate of (name, version).
WriteStep(name, version) ==
    \E p \in Procs :
        /\ req[p].op \in {"package_archive", "admin_prefetch"}
        /\ req[p].name = name /\ req[p].version = version
        /\ req[p].tar = <<>>
        /\ req[p].pc = "write" /\ req'[p].pos = req[p].pos + 1

\* C14: a cache entry that is present stays present with the same content
\* through every step that is not a purge of its version or of its package.
C14_EntryImmutable ==
    [][\A k \in Keys :
          (cached_tar_path(k[1], k[2]) # {} /\ ~PurgeStep(k[1], k[2]))
          => EntryContent(k[1], k[2])' = EntryContent(k[1], k[2])]_vars

\* C14 amended: a cache entry that is present stays present through every
\* step that is not a purge of its version or of its package, and its content
\* changes only in a step of a populate of that key: the rename of a prefetch
\* or of an archive request that had missed, or a write of such a populate.
\* No metadata request, fallback request or cache-hit archive request alters
\* or removes it.
C14_EntryChangedOnlyByPopulate ==
    [][\A k \in Keys :
          (cached_tar_path(k[1], k[2]) # {} /\ ~PurgeStep(k[1], k[2]))
          => /\ cached_tar_path(k[1], k[2])' = cached_tar_path(k[1], k[2])
             /\ EntryContent(k[1], k[2])' # EntryContent(k[1], k[2])
                  => (RenameStep(k[1], k[2]) \/ WriteStep(k[1], k[2]))]_vars

\* C14 happens: an entry is present that a prefetch replaced, one thread has
\* been served it from the cache and the other has finished a prefetch of it.
C14_Witness ==
    \E p, q \in Procs :
        /\ req[p].op = "package_archive" /\ req[p].outcome = "CacheHit"
        /\ req[q].op = "admin_prefetch" /\ req[q].outcome = "cached"
        /\ ~req[q].absent0
        /\ EntryContent(req[p].name, req[p].version) # {}

\* C18: a cache entry appears only in the os.replace step of a prefetch or
\* of an archive request that missed the cache; no step of a metadata
\* handler, of the fallback, of a purge or of a cache hit makes one appear.
C18_OnlyPopulateCreates ==
    [][\A k \in Keys :
          (cached_tar_path(k[1], k[2]) = {}
              /\ cached_tar_path(k[1], k[2])' # {})
          => RenameStep(k[1], k[2])]_vars

\* C18 happens: an archive request created the entry by its rename and the
\* other thread has finished a metadata request.
C18_Witness ==
    \E p, q \in Procs :
        /\ req[p].op = "package_archive" /\ req[p].outcome = "Cached"
        /\ req[p].absent0
        /\ cached_tar_path(req[p].name, req[p].version) # {}
        /\ req[q].op \in {"api_package", "api_package_version",
                          "proxy_fallback"}
        /\ req[q].pc = "done"

\* Thread p is between the open of its temporary file, which succeeded, and
\* the end of its populate (the rename or the cleanup).
Populating(p) ==
    /\ req[p].op \in {"package_archive", "admin_prefetch"}
    /\ \/ req[p].pc \in {"write", "replace"}
       \/ req[p].pc = "except" /\ req[p].pos > 0

\* Some file of the cache tree has a name ending in '.part'.
PartExists == \E f \in DOMAIN files : EndsWithPart(f)

\* C20: in every state in which no archive request or prefetch is between
\* opening its temporary file and finishing, the cache tree holds no '.part'
\* file.
C20_NoStrayPart == (\A p \in Procs : ~Populating(p)) => ~PartExists

\* C20 amended: a '.part' file comes to lie in the tree with no populate in
\* flight only when the cleanup of the populate that finished last could not
\* remove it (os.remove raised and the handler swallowed the error); from
\* then on it stays until a purge or a later populate of the key.  Every
\* other end of a populate leaves no '.part' file.
C20_StrayPartOnlyAfterFailedRemove ==
    [][((\A p \in Procs : ~Populating(p)') /\ PartExists')
          => \/ (\A p \in Procs : ~Populating(p)) /\ PartExists
             \/ \E p \in Procs :
                  /\ Populating(p) /\ req[p].pc = "except"
                  /\ req'[p].pc = "done" /\ req'[p].rmfail]_vars

\* C20 happens: a populate failed in its write loop, its cleanup removed the
\* temporary file, and the tree holds no '.part' file with nothing in flight.
C20_Witness ==
    /\ \A p \in Procs : ~Populating(p)
    /\ ~PartExists
    /\ \E p \in Procs :
         /\ req[p].op \in {"package_archive", "admin_prefetch"}
         /\ req[p].pc = "done" /\ req[p].fault /\ req[p].pos > 0
         /\ ~req[p].rmfail

\* C19: a prefetch of a cached (name, version) that ends in a failure (502,
\* the upstream status passed through, or 500 after a disk error) and had no
\* other request on its key in flight during its run leaves the cached file
\* present with the content it had when the prefetch arrived.
C19_FailedPrefetchKeepsEntry ==
    [][\A p \in Procs :
         (/\ req[p].op = "admin_prefetch" /\ Finishes(p)
          /\ req'[p].outcome # "cached"
          /\ req[p].seen0 # {}
          /\ ~req'[p].crossed)
         => EntryContent(req[p].name, req[p].version)' = req[p].seen0]_vars

\* C19 happens: a prefetch of a cached key, alone on it, failed in the write
\* loop after it had written a chunk, and the entry is as it was.
C19_Witness ==
    \E p \in Procs :
        /\ req[p].op = "admin_prefetch" /\ req[p].pc = "done"
        /\ req[p].outcome = "error" /\ req[p].pos > 1
        /\ req[p].seen0 # {} /\ ~req[p].crossed
        /\ EntryContent(req[p].name, req[p].version) = req[p].seen0

\* What the cache tree holds for a key: whether its version directory is
\* there, and the names and contents of the files in it.
KeyState(name, version) ==
    [dir |-> version_dir(name, version) \in verDirs,
     held |-> {<<f, data[files[f]]>> :
                  f \in {g \in DOMAIN files :
                            g[1] = name /\ g[2] = version}}]

\* What the cache tree holds for a package.
PackageState(name) ==
    [dir |-> name \in pkgDirs,
     versions |-> [v \in TreeVersions |-> KeyState(name, v)]]

\* C13: a purge of (name, version) leaves that version without an entry and
\* every other version of the package, the package directory and every
\* other package as they were; a purge of name without a version leaves
\* every version of name without an entry and every other package as it was.
C13_PurgeFrame ==
    [][\A p \in Procs :
         (req[p].op = "admin_purge" /\ Finishes(p))
         => LET n == req[p].name
                v == req[p].version
            IN  /\ \A m \in TreeNames \ {n} :
                     PackageState(m)' = PackageState(m)
                /\ v # NoVersion
                     => /\ cached_tar_path(n, v)' = {}
                        /\ (n \in pkgDirs)' = (n \in pkgDirs)
                        /\ \A w \in TreeVersions \ {v} :
                             KeyState(n, w)' = KeyState(n, w)
                /\ v = NoVersion
                     => \A w \in TreeVersions :
                           cached_tar_path(n, w)' = {}]_vars

\* C13 happens: one thread purged a version of a package whose other version
\* is still cached, the other thread purged the whole of another package.
C13_Witness ==
    \E p, q \in Procs :
        /\ req[p].op = "admin_purge" /\ req[p].outcome = "purged"
        /\ req[p].version # NoVersion
        /\ \E w \in TreeVersions \ {req[p].version} :
             cached_tar_path(req[p].name, w) # {}
        /\ req[q].op = "admin_purge" /\ req[q].outcome = "purged"
        /\ req[q].version = NoVersion /\ req[q].name # req[p].name
        /\ \A w \in TreeVersions : cached_tar_path(req[q].name, w) = {}

====
